---- MODULE Spec2Model ----
(***************************************************************************)
(* Model of wps_version_crawler.py: the chunked downloader (Downloader),   *)
(* the version ledger (_update_history) and the two platform crawlers.     *)
(*                                                                         *)
(* Sizes are scaled: one model byte stands for one block of the file, so   *)
(* that min_chunk_size (1 MiB in the source) is 2 blocks, and one write of *)
(* iter_content is one block.  The remote resource of length n is the byte *)
(* sequence <<1, 2, .., n>>: the byte at offset o is o + 1, and 0 is the   *)
(* zero fill of a truncate()d file.                                        *)
(***************************************************************************)
EXTENDS Integers, Sequences, FiniteSets, TLC

\* ------------------------------------------------------------------ bounds
MaxSize == 3
MaxThreads == 2
MaxChunkSize == 3
MaxFaults == 4
MaxTotal == 20
MaxParallel == 16
MaxDesired == 12
MaxUpserts == 3
MaxClock == 0
MaxTime == 1
MaxRuns == 2

\* ------------------------------------------------------- program constants
min_chunk_size == 2
max_retries == 3
mac_max_retries == 3

VARIABLES
    num_threads,    \* Downloader.num_threads
    chunk_size,     \* Downloader.chunk_size
    remote_size,    \* length of the remote resource
    path_exists,    \* os.path.exists(save_path)
    file_bytes,     \* content of save_path when it exists
    dl_pc,          \* position of download_file: "idle", "pool", "returned"
    total_size,     \* download_file's total_size
    chunks,         \* download_file's chunks: sequence of <<start, end>>
    tasks,          \* one _download_chunk invocation per chunk
    results,        \* download_file's results, collected future by future
    dl_result,      \* value download_file returned
    faults,         \* failed requests and broken streams injected so far
    single,         \* the _download_single call of download_file, if any
    version_history,\* WPSVersionCrawler.version_history (the ledger)
    history_file,   \* version_history.json on disk
    version_file,   \* versions/<platform>/<platform>.yaml on disk
    clock,          \* datetime.now(), to the second
    crawl_pc,       \* position of crawl_all_versions
    mac_retry,      \* retry_count of _get_macos_version
    runs,           \* runs of main() started so far
    upserts,        \* _update_history calls made so far
    last_call,      \* arguments of the latest _update_history call
    last_crawl      \* what the latest platform crawl found and did: the
                    \* outcome, the discovered version, the download_file result

dvars == <<num_threads, chunk_size, remote_size, path_exists, file_bytes,
           dl_pc, total_size, chunks, tasks, results, dl_result, faults,
           single>>

cvars == <<version_history, history_file, version_file, clock, crawl_pc,
           mac_retry, runs, upserts, last_call, last_crawl>>

vars == <<dvars, cvars>>

\* ------------------------------------------------------------------ helpers
Min(a, b) == IF a < b THEN a ELSE b
Max(a, b) == IF a > b THEN a ELSE b

\* The remote resource: byte o + 1 at offset o.
Resource(n) == [o \in 1..n |-> o]

\* The bytes of the resource in the inclusive offset range [s, e].
RangeBody(n, s, e) == [k \in 1..(Min(e, n - 1) - s + 1) |-> s + k]

\* f.write(b) at file position pos: overwrite, append, or zero-fill a gap.
WriteAt(data, pos, b) ==
    IF pos < Len(data)
    THEN [data EXCEPT ![pos + 1] = b]
    ELSE data \o [k \in 1..(pos - Len(data)) |-> 0] \o <<b>>

\* ChunkWalk with the end of a range one byte too far.
RECURSIVE ChunkWalkEndOffByOne(_, _, _)
ChunkWalkEndOffByOne(start, total, size) ==
    IF start >= total
    THEN <<>>
    ELSE <<<<start, Min(start + size, total - 1)>>>>
         \o ChunkWalkEndOffByOne(start + size, total, size)

\* for start in range(0, total_size, chunk_size): chunks.append((start, end))
RECURSIVE ChunkWalk(_, _, _)
ChunkWalk(start, total, size) ==
    IF start >= total
    THEN <<>>
    ELSE <<<<start, Min(start + size - 1, total - 1)>>>>
         \o ChunkWalk(start + size, total, size)

\* The chunk size taken from the configured size alone.
ConfiguredChunkSize(total, cs, nt, minc) == Max(minc, cs)

\* chunk_size = max(min_chunk_size,
\*                  min(self.chunk_size, total_size // self.num_threads))
EffectiveChunkSize(total, cs, nt, minc) == Max(minc, Min(cs, total \div nt))

ComputeChunks(total, cs, nt, minc) ==
    ChunkWalk(0, total, EffectiveChunkSize(total, cs, nt, minc))

\* A submitted _download_chunk call that no worker has picked up yet.
\* attempts counts the session.get calls the invocation has made; pos and body
\* are the open file handle's position and the part of the response body
\* still to be written.
NewTask == [state |-> "queued", retry_count |-> 0, attempts |-> 0,
            pos |-> 0, body |-> <<>>, result |-> FALSE]

InFlight == {i \in 1..Len(tasks) : tasks[i].state \in {"running", "writing"}}

\* except Exception: retry_count += 1; leave the loop when the bound is hit.
AfterException(t) ==
    IF t.retry_count + 1 < max_retries
    THEN [t EXCEPT !.retry_count = @ + 1, !.state = "running", !.body = <<>>,
                   !.pos = 0]
    ELSE [t EXCEPT !.retry_count = @ + 1, !.state = "done", !.body = <<>>,
                   !.pos = 0, !.result = FALSE]

\* ---------------------------------------------------------- Downloader
\* No _download_single call made.  calls counts the calls, body is the part
\* of the response body still to be written, result the value returned.
NoSingle == [calls |-> 0, state |-> "none", body |-> <<>>, result |-> FALSE]

\* The except clause of _download_single leaving the file where it is.
KeptOnFailure(exists) == exists

\* if os.path.exists(save_path): os.remove(save_path)
RemovedIfExists(exists) == FALSE

\* _download_single up to the first write.
\*   resp = "exc"  session.get raises
\*   resp = "bad"  raise_for_status raises
\*   resp = "ok"   open(save_path, 'wb') creates or empties the file
\* A failure runs the except clause and returns False.
download_single(resp) ==
    IF resp = "ok"
    THEN /\ path_exists' = TRUE
         /\ file_bytes' = <<>>
         /\ single' = [calls |-> single.calls + 1, state |-> "writing",
                       body |-> Resource(remote_size), result |-> FALSE]
         /\ dl_pc' = "single"
         /\ UNCHANGED dl_result
    ELSE /\ path_exists' = RemovedIfExists(path_exists)
         /\ file_bytes' = IF path_exists' THEN file_bytes ELSE <<>>
         /\ single' = [calls |-> single.calls + 1, state |-> "returned",
                       body |-> <<>>, result |-> FALSE]
         /\ dl_pc' = "returned"
         /\ dl_result' = FALSE

\* if response.status_code != 200 never taken.
ProbeAlwaysAccepted(probe) == FALSE

\* if response.status_code != 200: return False
ProbeRejected(probe) == probe = "bad"

\* download_file going on to the chunked path whatever the length.
LengthAlwaysKnown(len) == FALSE

\* if total_size == 0
LengthUnknown(len) == len = 0

\* int(response.headers.get('content-length', 0))
ContentLength(probe) == IF probe = "ok" THEN remote_size ELSE 0

\* download_file up to the submission of the chunk tasks.
\*   probe = "exc"    the HEAD request raises
\*   probe = "bad"    status other than 200
\*   probe = "nolen"  status 200, content-length missing or 0
\*   probe = "ok"     status 200, content-length = size of the resource
\* resp is the response to the GET of _download_single.
DownloadFileStart(probe, resp) ==
    /\ dl_pc = "idle"
    /\ IF probe = "exc"
       THEN /\ path_exists' = FALSE
            /\ file_bytes' = <<>>
            /\ dl_result' = FALSE
            /\ dl_pc' = "returned"
            /\ UNCHANGED <<total_size, chunks, tasks, single>>
       ELSE IF ProbeRejected(probe)
       THEN /\ dl_result' = FALSE
            /\ dl_pc' = "returned"
            /\ UNCHANGED <<path_exists, file_bytes, total_size, chunks, tasks,
                           single>>
       ELSE IF LengthUnknown(ContentLength(probe))
       THEN /\ download_single(resp)
            /\ UNCHANGED <<total_size, chunks, tasks>>
       ELSE /\ total_size' = ContentLength(probe)
            /\ path_exists' = TRUE
            /\ file_bytes' = [k \in 1..total_size' |-> 0]
            /\ chunks' = ComputeChunks(total_size', chunk_size, num_threads,
                                       min_chunk_size)
            /\ tasks' = [i \in 1..Len(chunks') |-> NewTask]
            /\ dl_pc' = "pool"
            /\ UNCHANGED <<dl_result, single>>
    /\ UNCHANGED cvars
    /\ UNCHANGED <<num_threads, chunk_size, remote_size, results, faults>>

\* f.write(chunk) in _download_single; after the last piece the call returns
\* True, which download_file returns in turn.
SingleWrite ==
    /\ dl_pc = "single"
    /\ single.state = "writing"
    /\ file_bytes' = Append(file_bytes, Head(single.body))
    /\ IF Len(single.body) = 1
       THEN /\ single' = [single EXCEPT !.state = "returned", !.body = <<>>,
                                        !.result = TRUE]
            /\ dl_result' = TRUE
            /\ dl_pc' = "returned"
       ELSE /\ single' = [single EXCEPT !.body = Tail(@)]
            /\ UNCHANGED <<dl_result, dl_pc>>
    /\ UNCHANGED cvars
    /\ UNCHANGED <<num_threads, chunk_size, remote_size, path_exists,
                   total_size, chunks, tasks, results, faults>>

\* iter_content raises in _download_single: the except clause removes the
\* partly written file and the call returns False.
SingleStreamError ==
    /\ dl_pc = "single"
    /\ single.state = "writing"
    /\ path_exists' = RemovedIfExists(path_exists)
    /\ file_bytes' = IF path_exists' THEN file_bytes ELSE <<>>
    /\ single' = [single EXCEPT !.state = "returned", !.result = FALSE]
    /\ dl_result' = FALSE
    /\ dl_pc' = "returned"
    /\ UNCHANGED cvars
    /\ UNCHANGED <<num_threads, chunk_size, remote_size, total_size, chunks,
                   tasks, results, faults>>

\* An executor that starts a thread for every submitted call.
PoolStartsEveryCall(i) ==
    /\ tasks[i].state = "queued"
    /\ \A j \in 1..(i - 1) : tasks[j].state # "queued"

\* ThreadPoolExecutor(max_workers=num_threads): a free worker takes the
\* oldest queued call.
PoolMayStart(i) ==
    /\ tasks[i].state = "queued"
    /\ \A j \in 1..(i - 1) : tasks[j].state # "queued"
    /\ Cardinality(InFlight) < num_threads

StartChunk(i) ==
    /\ dl_pc = "pool"
    /\ PoolMayStart(i)
    /\ tasks' = [tasks EXCEPT ![i].state = "running"]
    /\ UNCHANGED cvars
    /\ UNCHANGED <<num_threads, chunk_size, remote_size, path_exists,
                   file_bytes, dl_pc, total_size, chunks, results, dl_result,
                   faults, single>>

\* One pass of the while loop of _download_chunk up to the status test.
\*   resp = "exc"  session.get raises: the except branch counts a retry
\*   resp = "bad"  status neither 200 nor 206: falls out of the try block
\*                 without touching retry_count, and the loop repeats
\*   resp = "206"  partial content: the body is the requested range
\*   resp = "200"  full content: the body is the whole resource
\*   resp = "short" partial content that ends one block before the end of the
\*                  requested range, the stream closing without an error
ChunkAfterResponse(t, rng, resp) ==
    CASE resp = "exc" -> AfterException([t EXCEPT !.attempts = @ + 1])
      [] resp = "bad" -> [t EXCEPT !.attempts = @ + 1]
      [] resp = "206" -> [t EXCEPT !.attempts = @ + 1, !.state = "writing",
                                   !.pos = rng[1],
                                   !.body = RangeBody(remote_size, rng[1], rng[2])]
      [] resp = "200" -> [t EXCEPT !.attempts = @ + 1, !.state = "writing",
                                   !.pos = rng[1],
                                   !.body = Resource(remote_size)]
      [] resp = "short" ->
            IF rng[1] = rng[2]
            THEN [t EXCEPT !.attempts = @ + 1, !.state = "done",
                           !.result = TRUE]
            ELSE [t EXCEPT !.attempts = @ + 1, !.state = "writing",
                           !.pos = rng[1],
                           !.body = RangeBody(remote_size, rng[1], rng[2] - 1)]

\* The responses that are failures; the model injects at most MaxFaults.
IsFault(resp) == resp \in {"exc", "bad"}

ChunkRequest(i, resp) ==
    /\ dl_pc = "pool"
    /\ tasks[i].state = "running"
    /\ IsFault(resp) => faults < MaxFaults
    /\ faults' = IF IsFault(resp) THEN faults + 1 ELSE faults
    /\ tasks' = [tasks EXCEPT ![i] = ChunkAfterResponse(tasks[i], chunks[i], resp)]
    /\ UNCHANGED cvars
    /\ UNCHANGED <<num_threads, chunk_size, remote_size, path_exists,
                   file_bytes, dl_pc, total_size, chunks, results, dl_result,
                   single>>

\* f.write(chunk) of the next piece of the body at the handle's position;
\* after the last piece the with block closes and the call returns True.
ChunkAfterWrite(t) ==
    IF Len(t.body) = 1
    THEN [t EXCEPT !.pos = 0, !.body = <<>>, !.state = "done",
                   !.result = TRUE]
    ELSE [t EXCEPT !.pos = @ + 1, !.body = Tail(@)]

ChunkWrite(i) ==
    /\ dl_pc = "pool"
    /\ tasks[i].state = "writing"
    /\ file_bytes' = WriteAt(file_bytes, tasks[i].pos, Head(tasks[i].body))
    /\ tasks' = [tasks EXCEPT ![i] = ChunkAfterWrite(tasks[i])]
    /\ UNCHANGED cvars
    /\ UNCHANGED <<num_threads, chunk_size, remote_size, path_exists,
                   dl_pc, total_size, chunks, results, dl_result, faults,
                   single>>

\* iter_content raises in the middle of the body (connection lost).
ChunkStreamError(i) ==
    /\ dl_pc = "pool"
    /\ tasks[i].state = "writing"
    /\ faults < MaxFaults
    /\ faults' = faults + 1
    /\ tasks' = [tasks EXCEPT ![i] = AfterException(tasks[i])]
    /\ UNCHANGED cvars
    /\ UNCHANGED <<num_threads, chunk_size, remote_size, path_exists,
                   file_bytes, dl_pc, total_size, chunks, results, dl_result,
                   single>>

\* results = [f.result() for f in futures]: the next future, in submission
\* order, has finished.
FutureReady(ts, rs) ==
    /\ Len(rs) < Len(ts)
    /\ ts[Len(rs) + 1].state = "done"

AwaitResult ==
    /\ dl_pc = "pool"
    /\ FutureReady(tasks, results)
    /\ results' = Append(results, tasks[Len(results) + 1].result)
    /\ UNCHANGED cvars
    /\ UNCHANGED <<num_threads, chunk_size, remote_size, path_exists,
                   file_bytes, dl_pc, total_size, chunks, tasks, dl_result,
                   faults, single>>

\* any(results) in place of all(results).
AnyResult(rs) == \E k \in 1..Len(rs) : rs[k]

\* return all(results)
AllResults(rs) == \A k \in 1..Len(rs) : rs[k]

DownloadFileReturn ==
    /\ dl_pc = "pool"
    /\ Len(results) = Len(tasks)
    /\ dl_result' = AllResults(results)
    /\ dl_pc' = "returned"
    /\ UNCHANGED cvars
    /\ UNCHANGED <<num_threads, chunk_size, remote_size, path_exists,
                   file_bytes, total_size, chunks, tasks, results, faults,
                   single>>

\* ------------------------------------------------------------ the ledger
\* A dict is a function from its keys; d.get(k) of a missing key is None.
None == "None"
NoUrl == <<>>
Get(d, k) == IF k \in DOMAIN d THEN d[k] ELSE None

\* record.update(version_info): the keys of version_info win, the others stay.
DictUpdate(record, info) ==
    [k \in (DOMAIN record) \cup (DOMAIN info) |->
        IF k \in DOMAIN info THEN info[k] ELSE record[k]]

\* platform.lower()
PlatformKey(platform) == IF platform = "Windows" THEN "windows" ELSE "macos"

EmptyHistory == [windows |-> <<>>, macos |-> <<>>]

\* if record.get("version") == version_info.get("version")
SameVersion(record, info) == Get(record, "version") = Get(info, "version")

\* _update_history without the search for an existing record.
UpsertAlwaysAppend(records, info) == Append(records, info)

\* for record in ...: if match: record.update(version_info); break
\* else: append(version_info)
Upsert(records, info) ==
    IF \E i \in 1..Len(records) : SameVersion(records[i], info)
    THEN LET first == CHOOSE i \in 1..Len(records) :
                        /\ SameVersion(records[i], info)
                        /\ \A j \in 1..(i - 1) : ~SameVersion(records[j], info)
         IN [records EXCEPT ![first] = DictUpdate(@, info)]
    ELSE Append(records, info)

\* list.sort(key=update_time, reverse=True): stable, so records with equal
\* update_time keep their order.
InsertDesc(sorted, r) ==
    LET before == {i \in 1..Len(sorted) : sorted[i].update_time >= r.update_time}
        n == Cardinality(before)
    IN SubSeq(sorted, 1, n) \o <<r>> \o SubSeq(sorted, n + 1, Len(sorted))

\* _update_history without the sort.
KeepInsertionOrder(records) == records

RECURSIVE SortByUpdateTimeDesc(_)
SortByUpdateTimeDesc(records) ==
    IF records = <<>>
    THEN <<>>
    ELSE InsertDesc(SortByUpdateTimeDesc(SubSeq(records, 1, Len(records) - 1)),
                    records[Len(records)])

\* The ledger after _update_history(platform, version_info).
UpdatedHistory(history, platform, info) ==
    [history EXCEPT ![PlatformKey(platform)] =
        SortByUpdateTimeDesc(Upsert(@, info))]

\* _save_history: json.dump of the whole ledger; an error opening the file is
\* logged and leaves the file as it was.
SavedHistory(file, history, save_ok) ==
    IF save_ok THEN [state |-> "ok", data |-> history] ELSE file

\* _load_history without its try block: whatever the file holds is taken.
LoadedHistoryUnguarded(file) ==
    IF file.state = "absent" THEN EmptyHistory ELSE file.data

\* _load_history: the file's ledger when it exists, opens and parses; the
\* empty ledger when it is absent or when open() or json.load raises.
LoadedHistory(file) == IF file.state = "ok" THEN file.data ELSE EmptyHistory

\* _update_history as a step of the program.
update_history(platform, info, save_ok) ==
    /\ version_history' = UpdatedHistory(version_history, platform, info)
    /\ history_file' = SavedHistory(history_file, version_history', save_ok)
    /\ last_call' = [platform |-> platform, info |-> info]

\* ------------------------------------------------------- version records
WinVersions == {"21900", "21915"}
MacVersions == {"7.5.1", "12.1.21861"}
Builds == {"0", "8994"}
KnownLatest == "21915"
Platforms == {"Windows", "macOS"}

\* f"{base}/WPS_Setup_{bit_prefix}{latest_version}.exe"
WinUrl(bit_prefix, version) == <<"WPS_Setup", bit_prefix, version>>
MacZipUrl == <<"mac", "zip">>
MacDirUrl == <<"mac", "dir", "WPS_Office_Installer.zip">>

\* _generate_filename
GenerateFilename(platform, version, build_number, release_date) ==
    IF platform = "Windows"
    THEN <<"WPS_Office", version, release_date, "exe">>
    ELSE <<"WPS_Office", version, build_number, release_date, "zip">>

\* _calculate_file_hash of the file a download of url left behind
FileHash(url) == <<"sha256", url>>

UnknownRecordWithoutError(platform, now, error) ==
    [platform |-> platform, version |-> "Unknown", download_url |-> NoUrl,
     update_time |-> now]

\* return {"platform": ..., "version": "Unknown", "download_url": None,
\*         "update_time": ..., "error": ...}
UnknownRecord(platform, now, error) ==
    [platform |-> platform, version |-> "Unknown", download_url |-> NoUrl,
     update_time |-> now, error |-> error]

NoCall == [platform |-> "none", info |-> <<>>]
NoCrawl == [platform |-> "none", outcome |-> "none", version |-> None,
            build_number |-> None, download |-> "none", returned |-> <<>>]

\* yaml.safe_load of the platform's version file: <<>> when there is none.
LocalInfo(platform) == version_file[PlatformKey(platform)]

\* crawl_all_versions saving whatever the crawler returned.
SavedVersionFileUnchecked(files, platform, info) ==
    [files EXCEPT ![PlatformKey(platform)] = <<info>>]

\* crawl_all_versions: save_version_info unless the version is missing or
\* "Unknown".
SavedVersionFile(files, platform, info) ==
    IF "version" \in DOMAIN info /\ info.version # "Unknown"
    THEN [files EXCEPT ![PlatformKey(platform)] = <<info>>]
    ELSE files

\* ------------------------------------------- the parts a specification idles
InitCrawlerIdle ==
    /\ version_history = EmptyHistory
    /\ history_file = [state |-> "absent", data |-> EmptyHistory]
    /\ version_file = [windows |-> <<>>, macos |-> <<>>]
    /\ clock = 0
    /\ crawl_pc = "off"
    /\ mac_retry = 0
    /\ runs = 0
    /\ upserts = 0
    /\ last_call = NoCall
    /\ last_crawl = NoCrawl

InitDownloaderIdle ==
    /\ num_threads = 1
    /\ chunk_size = 1
    /\ remote_size = 1
    /\ path_exists = FALSE
    /\ file_bytes = <<>>
    /\ dl_pc = "off"
    /\ total_size = 0
    /\ chunks = <<>>
    /\ tasks = <<>>
    /\ results = <<>>
    /\ dl_result = FALSE
    /\ faults = 0
    /\ single = NoSingle

\* ----------------------------------------------------------- the crawlers
\* The next reading of datetime.now(): the clock never runs backwards.
Ticks == {t \in {clock, clock + 1} : t <= MaxClock}

\* if local_info and local_info.get("version") == latest_version
WindowsUpToDate(local_info, latest_version) ==
    /\ local_info # <<>>
    /\ Get(local_info[1], "version") = latest_version

\* if local_info and local_info.get("version") == version
\*    and local_info.get("build_number") == build_number
MacUpToDate(local_info, version, build_number) ==
    /\ local_info # <<>>
    /\ Get(local_info[1], "version") = version
    /\ Get(local_info[1], "build_number") = build_number

\* main(): WPSVersionCrawler() loads the ledger, crawl_all_versions starts.
StartRun ==
    /\ crawl_pc \in {"idle", "done"}
    /\ runs < MaxRuns
    /\ runs' = runs + 1
    /\ version_history' = LoadedHistory(history_file)
    /\ mac_retry' = 0
    /\ crawl_pc' = "windows"
    /\ UNCHANGED <<history_file, version_file, clock, upserts, last_call,
                   last_crawl>>
    /\ UNCHANGED dvars

\* What _get_windows_version found before its fallback branch.
\*   found = "360"       version from the 360 page; bits is the first verified
\*                       URL ("X64_", "") or "none" when neither verifies
\*   found = "site"      version from a captured WPS_Setup_<digits>.exe URL
\*   found = "none"      no version from either source
WindowsFoundUrl(found, version, bits) ==
    IF found = "site" THEN WinUrl("", version)
    ELSE IF bits = "none" THEN NoUrl
    ELSE WinUrl(bits, version)

\* The value _get_windows_version returns.  With a version found it builds
\* the result and upserts it; the fallback branch names url_32 and url_64,
\* which are not defined, so it ends in the except clause unless it returns
\* first.
WindowsReturn(found, version, bits, verify32, verify64, local_info, now) ==
    IF found # "none"
    THEN [platform |-> "Windows", version |-> version,
          download_url |-> WindowsFoundUrl(found, version, bits),
          update_time |-> now]
    ELSE IF verify32
    THEN UnknownRecord("Windows", now, "name 'url_32' is not defined")
    ELSE IF ~verify64
    THEN UnknownRecord("Windows", now, "no valid download link")
    ELSE IF WindowsUpToDate(local_info, KnownLatest)
    THEN local_info[1]
    ELSE UnknownRecord("Windows", now, "name 'url_64' is not defined")

WindowsOutcome(found, verify32, verify64, local_info) ==
    IF found # "none" THEN "recorded"
    ELSE IF ~verify32 /\ verify64 /\ WindowsUpToDate(local_info, KnownLatest)
    THEN "skip"
    ELSE "unknown"

\* crawl_all_versions giving up on the remaining platforms when one fails.
AfterWindowsStopOnFailure(outcome) ==
    IF outcome \in {"unknown", "raised"} THEN "done" ELSE "macos"

\* for platform, crawler_func in platforms.items(): the body is one try
\* block whose except clause only logs, so the loop goes on to macOS.
AfterWindows(outcome) == "macos"

\* _get_windows_version and the save in crawl_all_versions.  yaml_ok = FALSE:
\* save_version_info raises (the file cannot be written); the exception is
\* caught by crawl_all_versions and the version file stays as it was.
WindowsCrawl(found, version, bits, verify32, verify64, save_ok, yaml_ok, now) ==
    LET local_info == LocalInfo("Windows")
        returned == WindowsReturn(found, version, bits, verify32, verify64,
                                  local_info, now)
        returned_outcome == WindowsOutcome(found, verify32, verify64, local_info)
        saved == SavedVersionFile(version_file, "Windows", returned)
        raised == ~yaml_ok /\ returned_outcome # "unknown"
        outcome == IF raised THEN "raised" ELSE returned_outcome
    IN /\ crawl_pc = "windows"
       /\ clock' = now
       /\ IF returned_outcome = "recorded"
          THEN update_history("Windows", returned, save_ok)
          ELSE UNCHANGED <<version_history, history_file, last_call>>
       /\ version_file' = IF raised THEN version_file ELSE saved
       /\ last_crawl' = [platform |-> "Windows", outcome |-> outcome,
                         version |-> IF found # "none" THEN version
                                     ELSE KnownLatest,
                         build_number |-> None, download |-> "none",
                         returned |-> returned]
       /\ crawl_pc' = AfterWindows(outcome)
       /\ UNCHANGED <<mac_retry, runs, upserts>>
       /\ UNCHANGED dvars

\* The version texts the macOS page can show, as parsed: the dated form
\* "12.1.21861/2025.06.20" (build_number "0") and the build form "7.5.1(8994)".
MacDescriptors ==
    {[version |-> v, build_number |-> "0", release_date |-> "2025-06-20"] :
        v \in MacVersions}
    \cup {[version |-> v, build_number |-> b, release_date |-> ""] :
        v \in MacVersions, b \in Builds \ {"0"}}

\* result = {...}; release_date, local_file and file_hash only when set.
MacResult(d, url, downloaded, now) ==
    LET base == [platform |-> "macOS", version |-> d.version,
                 build_number |-> d.build_number, download_url |-> url,
                 update_time |-> now]
        dated == IF d.release_date # ""
                 THEN [release_date |-> d.release_date] ELSE <<>>
        filed == IF downloaded
                 THEN [local_file |-> GenerateFilename("macOS", d.version,
                                        d.build_number, d.release_date),
                       file_hash |-> FileHash(url)]
                 ELSE <<>>
    IN DictUpdate(DictUpdate(base, dated), filed)

\* The end of a pass that produced no result: retry_count += 1, then either
\* continue or return the "Unknown" record (which is not saved).
MacRetry(error, now) ==
    /\ mac_retry' = mac_retry + 1
    /\ clock' = now
    /\ crawl_pc' = IF mac_retry + 1 < mac_max_retries THEN "macos" ELSE "done"
    /\ last_crawl' = [platform |-> "macOS",
                      outcome |-> IF mac_retry + 1 < mac_max_retries
                                  THEN "retry" ELSE "unknown",
                      version |-> None, build_number |-> None,
                      download |-> "none",
                      returned |-> IF mac_retry + 1 < mac_max_retries THEN <<>>
                                   ELSE UnknownRecord("macOS", now, error)]
    /\ version_file' =
          IF mac_retry + 1 < mac_max_retries THEN version_file
          ELSE SavedVersionFile(version_file, "macOS",
                                UnknownRecord("macOS", now, error))
    /\ UNCHANGED <<version_history, history_file, runs, upserts, last_call>>

\* One pass of the while loop of _get_macos_version, with the save in
\* crawl_all_versions when the pass returns.
\*   page = "exception"  the browser or the page raises
\*   page = "no_text"    no selector yields a version text
\*   page = "parsed"     the version text parses to the descriptor d
\*   link = "none" | "zip" | "dir"   the download URL captured after the click
\*   dl = "ok" | "failed"   what download_file returns
\*   dl = "never"           download_file does not return: a chunk request is
\*                          answered with a status other than 200 and 206
\*                          every time, and _download_chunk asks again
\*                          without counting the attempt
MacAttempt(page, d, link, dl, save_ok, now) ==
    LET local_info == LocalInfo("macOS")
        url == IF link = "zip" THEN MacZipUrl ELSE MacDirUrl
        result == MacResult(d, url, dl = "ok", now)
    IN /\ crawl_pc = "macos"
       /\ CASE page = "exception" -> MacRetry("exception", now)
            [] page = "no_text" -> MacRetry("no version or link", now)
            [] page = "parsed" /\ MacUpToDate(local_info, d.version, d.build_number) ->
                 /\ version_file' = SavedVersionFile(version_file, "macOS",
                                                     local_info[1])
                 /\ last_crawl' = [platform |-> "macOS", outcome |-> "skip",
                                   version |-> d.version,
                                   build_number |-> d.build_number,
                                   download |-> "none",
                                   returned |-> local_info[1]]
                 /\ crawl_pc' = "done"
                 /\ UNCHANGED <<version_history, history_file, clock, mac_retry,
                                runs, upserts, last_call>>
            [] page = "parsed" /\ ~MacUpToDate(local_info, d.version, d.build_number)
                 /\ link = "none" ->
                 /\ mac_retry' = mac_retry + 1
                 /\ clock' = now
                 /\ crawl_pc' = IF mac_retry + 1 < mac_max_retries THEN "macos"
                                ELSE "done"
                 /\ last_crawl' = [platform |-> "macOS",
                                   outcome |-> IF mac_retry + 1 < mac_max_retries
                                               THEN "retry" ELSE "unknown",
                                   version |-> d.version,
                                   build_number |-> d.build_number,
                                   download |-> "none",
                                   returned |->
                                       IF mac_retry + 1 < mac_max_retries
                                       THEN <<>>
                                       ELSE UnknownRecord("macOS", now,
                                                "no version or link")]
                 /\ UNCHANGED <<version_history, history_file, version_file,
                                runs, upserts, last_call>>
            [] page = "parsed" /\ ~MacUpToDate(local_info, d.version, d.build_number)
                 /\ link # "none" /\ dl = "never" ->
                 /\ last_crawl' = [platform |-> "macOS", outcome |-> "downloading",
                                   version |-> d.version,
                                   build_number |-> d.build_number,
                                   download |-> "never",
                                   returned |-> <<>>]
                 /\ crawl_pc' = "downloading"
                 /\ UNCHANGED <<version_history, history_file, version_file,
                                clock, mac_retry, runs, upserts, last_call>>
            [] page = "parsed" /\ ~MacUpToDate(local_info, d.version, d.build_number)
                 /\ link # "none" /\ dl # "never" ->
                 /\ clock' = now
                 /\ update_history("macOS", result, save_ok)
                 /\ version_file' = SavedVersionFile(version_file, "macOS", result)
                 /\ last_crawl' = [platform |-> "macOS", outcome |-> "recorded",
                                   version |-> d.version,
                                   build_number |-> d.build_number,
                                   download |-> dl,
                                   returned |-> result]
                 /\ crawl_pc' = "done"
                 /\ UNCHANGED <<mac_retry, runs, upserts>>
       /\ UNCHANGED dvars

\* --------------------------------------------------- crawler specification
\* What version_history.json holds when it cannot be loaded: a ledger cut
\* short by a failed write ("corrupt") or one the process may not read
\* ("unreadable").
LostLedger ==
    [windows |-> <<[platform |-> "Windows", version |-> "21900",
                    download_url |-> WinUrl("X64_", "21900"),
                    update_time |-> 0]>>,
     macos |-> <<>>]

HistoryFiles ==
    {[state |-> "absent", data |-> EmptyHistory]}
    \cup {[state |-> st, data |-> LostLedger] : st \in {"corrupt", "unreadable"}}

InitCrawl ==
    /\ InitDownloaderIdle
    /\ version_history = EmptyHistory
    /\ history_file \in HistoryFiles
    /\ version_file = [windows |-> <<>>, macos |-> <<>>]
    /\ clock = 0
    /\ crawl_pc = "idle"
    /\ mac_retry = 0
    /\ runs = 0
    /\ upserts = 0
    /\ last_call = NoCall
    /\ last_crawl = NoCrawl

\* What the two discovery sources, the two HEAD checks and the writes of
\* version_history.json and windows.yaml can yield, each case once:
\* f = <<found, version, bits, verify32, verify64, save_ok, yaml_ok>>.
WindowsFindings ==
    {<<"360", v, "X64_", FALSE, FALSE, TRUE, TRUE>> : v \in WinVersions}
    \cup {<<"360", KnownLatest, "none", FALSE, FALSE, TRUE, TRUE>>,
          <<"site", KnownLatest, "none", FALSE, FALSE, TRUE, TRUE>>,
          <<"360", KnownLatest, "X64_", FALSE, FALSE, FALSE, TRUE>>,
          <<"360", KnownLatest, "X64_", FALSE, FALSE, TRUE, FALSE>>}
    \cup {<<"none", KnownLatest, "none", v32, v64, TRUE, TRUE>> :
             v32 \in BOOLEAN, v64 \in BOOLEAN}

\* The descriptors the crawler runs are checked with: two builds of one
\* version and one other version.
CrawlDescriptors ==
    {d \in MacDescriptors : d.version = "12.1.21861" \/ d.build_number = "0"}

\* What one pass over the macOS page and the write of version_history.json
\* can yield, each case once: m = <<page, d, link, dl, save_ok>>.
MacFindings ==
    {<<page, CHOOSE d \in CrawlDescriptors : TRUE, "none", "failed", TRUE>> :
        page \in {"exception", "no_text"}}
    \cup {<<"parsed", d, "none", "failed", TRUE>> : d \in CrawlDescriptors}
    \cup {<<"parsed", d, "zip", dl, TRUE>> :
             d \in CrawlDescriptors, dl \in {"ok", "failed"}}
    \cup {<<"parsed", CHOOSE d \in CrawlDescriptors : TRUE, "zip", "ok", FALSE>>,
          <<"parsed", CHOOSE d \in CrawlDescriptors : TRUE, "dir", "ok", TRUE>>,
          <<"parsed", CHOOSE d \in CrawlDescriptors : TRUE, "zip", "never", TRUE>>}

NextCrawl ==
    \/ StartRun
    \/ \E f \in WindowsFindings, now \in Ticks :
           WindowsCrawl(f[1], f[2], f[3], f[4], f[5], f[6], f[7], now)
    \/ \E m \in MacFindings, now \in Ticks :
           MacAttempt(m[1], m[2], m[3], m[4], m[5], now)

SpecCrawl == InitCrawl /\ [][NextCrawl]_vars

\* ---------------------------------------------------- ledger specification
\* Any sequence of _update_history calls on an empty ledger.
LedgerInputs(platform) ==
    IF platform = "Windows"
    THEN {[platform |-> "Windows", version |-> v,
           download_url |-> WinUrl("X64_", v), update_time |-> t] :
             v \in WinVersions, t \in 0..MaxTime}
    ELSE {MacResult(d, MacZipUrl, downloaded, t) :
             d \in MacDescriptors, downloaded \in BOOLEAN, t \in 0..MaxTime}

LedgerUpsert(platform, info, save_ok) ==
    /\ upserts < MaxUpserts
    /\ upserts' = upserts + 1
    /\ update_history(platform, info, save_ok)
    /\ UNCHANGED <<version_file, clock, crawl_pc, mac_retry, runs, last_crawl>>
    /\ UNCHANGED dvars

InitLedger ==
    /\ InitDownloaderIdle
    /\ InitCrawlerIdle

NextLedger ==
    \E platform \in Platforms, save_ok \in BOOLEAN :
        \E info \in LedgerInputs(platform) :
            LedgerUpsert(platform, info, save_ok)

SpecLedger == InitLedger /\ [][NextLedger]_vars

\* ------------------------------------------------- downloader specification
StaleFile == <<9>>
Probes == {"exc", "bad", "nolen", "ok"}
SingleResponses == {"exc", "bad", "ok"}
ChunkResponses == {"exc", "bad", "206", "200", "short"}

InitDownload ==
    /\ num_threads \in 1..MaxThreads
    /\ chunk_size \in 1..MaxChunkSize
    /\ remote_size \in 1..MaxSize
    /\ path_exists \in BOOLEAN
    /\ file_bytes = IF path_exists THEN StaleFile ELSE <<>>
    /\ dl_pc = "idle"
    /\ total_size = 0
    /\ chunks = <<>>
    /\ tasks = <<>>
    /\ results = <<>>
    /\ dl_result = FALSE
    /\ faults = 0
    /\ single = NoSingle
    /\ InitCrawlerIdle

NextDownload ==
    \/ \E probe \in Probes, resp \in SingleResponses :
           DownloadFileStart(probe, resp)
    \/ SingleWrite
    \/ SingleStreamError
    \/ \E i \in 1..Len(tasks) : StartChunk(i)
    \/ \E i \in 1..Len(tasks), resp \in ChunkResponses :
           ChunkRequest(i, resp)
    \/ \E i \in 1..Len(tasks) : ChunkWrite(i)
    \/ \E i \in 1..Len(tasks) : ChunkStreamError(i)
    \/ AwaitResult
    \/ DownloadFileReturn

SpecDownload == InitDownload /\ [][NextDownload]_vars

\* ---------------------------------------------------- chunker specification
\* download_file run up to the partition, over a wider range of sizes.
InitChunker ==
    /\ num_threads \in 1..MaxParallel
    /\ chunk_size \in 1..MaxDesired
    /\ remote_size \in 1..MaxTotal
    /\ path_exists = FALSE
    /\ file_bytes = <<>>
    /\ dl_pc = "idle"
    /\ total_size = 0
    /\ chunks = <<>>
    /\ tasks = <<>>
    /\ results = <<>>
    /\ dl_result = FALSE
    /\ faults = 0
    /\ single = NoSingle
    /\ InitCrawlerIdle

NextChunker ==
    \E probe \in Probes, resp \in SingleResponses :
        DownloadFileStart(probe, resp)

SpecChunker == InitChunker /\ [][NextChunker]_vars

\* ------------------------------------------------------ downloader claims
ChunkedPath == chunks # <<>>
TaskIds == 1..Len(tasks)

\* C1: when download_file reports failure after the destination was
\* pre-allocated, the destination path does not exist.
C1_FailureCleanup ==
    (dl_pc = "returned" /\ ChunkedPath /\ ~dl_result) => ~path_exists

\* C2: when download_file returns success on the chunked path, every offset
\* in [0, total_size) of the destination holds the resource's byte.
C2_SuccessIsFullCopy ==
    (dl_pc = "returned" /\ ChunkedPath /\ dl_result) =>
        /\ path_exists
        /\ Len(file_bytes) >= total_size
        /\ \A o \in 0..(total_size - 1) :
               file_bytes[o + 1] = Resource(remote_size)[o + 1]

\* C3: an invocation of _download_chunk makes at most 3 request attempts.
C3_AtMostThreeAttempts ==
    \A i \in TaskIds : tasks[i].attempts <= max_retries

\* C4: on the chunked path download_file returns only after every chunk
\* fetch has completed, and returns success iff every fetch returned success.
C4_BarrierAndAll ==
    (dl_pc = "returned" /\ ChunkedPath) =>
        /\ \A i \in TaskIds : tasks[i].state = "done"
        /\ dl_result <=> (\A i \in TaskIds : tasks[i].result)

C4_Witness ==
    /\ dl_pc = "returned"
    /\ Len(tasks) = 2
    /\ tasks[1].result
    /\ ~tasks[2].result
    /\ ~dl_result

\* C5: the ranges computed in download_file start at 0, are contiguous and
\* non-overlapping, end at total_size - 1, and all but the last have length
\* at least min_chunk_size.
C5_RangesPartition ==
    ChunkedPath =>
        /\ chunks[1][1] = 0
        /\ chunks[Len(chunks)][2] = total_size - 1
        /\ \A k \in 1..Len(chunks) : chunks[k][1] <= chunks[k][2]
        /\ \A k \in 1..(Len(chunks) - 1) :
               /\ chunks[k + 1][1] = chunks[k][2] + 1
               /\ chunks[k][2] - chunks[k][1] + 1 >= min_chunk_size

C5_Witness ==
    /\ Len(chunks) >= 3
    /\ chunks[Len(chunks)][2] - chunks[Len(chunks)][1] + 1 < min_chunk_size
    /\ chunks[1][2] - chunks[1][1] + 1 > min_chunk_size

\* C6: every byte a chunk fetcher writes for range [start, end] lands at an
\* offset inside [start, end].
C6_WritesStayInRange ==
    [][\A i \in TaskIds :
          ChunkWrite(i) =>
              (chunks[i][1] <= tasks[i].pos /\ tasks[i].pos <= chunks[i][2])]_vars

\* --------------------------------------------------------- crawler claims
\* The rule of the update decision: a current record exists and its version,
\* and for macOS its build_number, equal the discovered values.
CurrentRecordMatches(platform, local_info, version, build_number) ==
    /\ local_info # <<>>
    /\ Get(local_info[1], "version") = version
    /\ platform = "macOS" => Get(local_info[1], "build_number") = build_number

\* A step of the crawl of platform in which a version was discovered.
DiscoveryStep(platform) ==
    /\ crawl_pc = PlatformKey(platform)
    /\ last_crawl'.version # None

\* C7: a crawl that discovered a version takes the Skip outcome iff a current
\* record exists and its version (and build_number on macOS) equals the
\* discovered values.
C7_SkipIffUpToDate ==
    [][\A platform \in Platforms :
          DiscoveryStep(platform) =>
              (last_crawl'.outcome = "skip" <=>
                  CurrentRecordMatches(platform, LocalInfo(platform),
                      last_crawl'.version, last_crawl'.build_number))]_vars

\* C8: once version V is recorded for a platform, a later crawl that
\* discovers the same V skips: no download, ledger unchanged.
C8_RepeatedDiscoverySkips ==
    [][\A platform \in Platforms :
          (/\ DiscoveryStep(platform)
           /\ CurrentRecordMatches(platform, LocalInfo(platform),
                  last_crawl'.version, last_crawl'.build_number))
          => /\ last_crawl'.outcome = "skip"
             /\ last_crawl'.download = "none"
             /\ version_history' = version_history]_vars

\* ---------------------------------------------------------- ledger claims
\* The identity key of a record within its platform's sequence.
VersionKey(record) == <<Get(record, "version"), Get(record, "build_number")>>

\* C9: each platform's sequence holds at most one record per version key.
C9_OneRecordPerKey ==
    \A key \in DOMAIN version_history :
        \A i, j \in 1..Len(version_history[key]) :
            i # j => VersionKey(version_history[key][i])
                     # VersionKey(version_history[key][j])

\* Two upserts on macOS, the second with the key of the first.
C9_Witness ==
    /\ upserts = 2
    /\ Len(version_history.macos) = 1
    /\ Len(version_history.windows) = 0

\* C10: an upsert of a record whose version key is not yet present adds one
\* record and leaves every existing record unchanged.
C10_NewKeyAppends ==
    [][upserts' = upserts + 1 =>
          LET key == PlatformKey(last_call'.platform)
              info == last_call'.info
              old == version_history[key]
              new == version_history'[key]
          IN (\A i \in 1..Len(old) : VersionKey(old[i]) # VersionKey(info))
             => /\ Len(new) = Len(old) + 1
                /\ \A i \in 1..Len(old) : \E j \in 1..Len(new) : new[j] = old[i]]_vars

\* C11: after every _update_history call the platform's sequence is ordered
\* by update_time descending: each record's update_time is >= that of the
\* record after it.
C11_SortedByUpdateTimeDesc ==
    \A key \in DOMAIN version_history :
        \A i \in 1..(Len(version_history[key]) - 1) :
            version_history[key][i].update_time
                >= version_history[key][i + 1].update_time

\* The latest call carried a later update_time than a record already present
\* and the sort moved its record to the front.
C11_Witness ==
    /\ upserts >= 2
    /\ last_call.platform = "macOS"
    /\ Len(version_history.macos) = 2
    /\ version_history.macos[1] = last_call.info
    /\ version_history.macos[1].update_time
           > version_history.macos[2].update_time

\* ------------------------------------------------- crawler ordering claims
\* A step of the crawl of platform that upserted the discovered version.
UpsertStep(platform) ==
    /\ crawl_pc = PlatformKey(platform)
    /\ last_crawl'.outcome = "recorded"

\* C12: a crawl upserts a discovered version only after the download engine
\* was invoked for that version and returned: no version is upserted without
\* a download attempt in the same crawl.
C12_UpsertAfterDownload ==
    [][\A platform \in Platforms :
          UpsertStep(platform) => last_crawl'.download \in {"ok", "failed"}]_vars

\* A step of the crawl of platform that failed: discovery yielded no version
\* or no link, or download_file returned False.
FailedCrawlStep(platform) ==
    /\ crawl_pc = PlatformKey(platform)
    /\ \/ last_crawl'.outcome \in {"unknown", "retry"}
       \/ last_crawl'.download = "failed"

\* C13: a crawl attempt that fails adds or changes no record in the ledger
\* and does not rewrite the platform's version file.
C13_FailureRecordsNothing ==
    [][\A platform \in Platforms :
          FailedCrawlStep(platform) =>
              /\ version_history' = version_history
              /\ version_file' = version_file]_vars

\* C14: starting from an empty ledger and no version files, no record whose
\* version is "Unknown" is ever in the ledger, in the ledger file or in a
\* platform's version file.
C14_NoUnknownPersisted ==
    \A key \in DOMAIN version_history :
        /\ \A i \in 1..Len(version_history[key]) :
               Get(version_history[key][i], "version") # "Unknown"
        /\ \A i \in 1..Len(history_file.data[key]) :
               Get(history_file.data[key][i], "version") # "Unknown"
        /\ \A i \in 1..Len(version_file[key]) :
               Get(version_file[key][i], "version") # "Unknown"

\* The second run's Windows crawl ended in the fallback branch with an
\* "Unknown" record while the first run had persisted a macOS version.
C14_Witness ==
    /\ runs = 2
    /\ last_crawl.platform = "Windows"
    /\ last_crawl.outcome = "unknown"
    /\ version_file.macos # <<>>
    /\ version_history.macos # <<>>

\* ----------------------------------------------- platform isolation claim
\* What a pass of the macOS crawl does, from what the macOS crawl itself
\* reads: macos.yaml, its retry_count and the page (m of MacFindings).
MacOutcomeFrom(local_info, retry, m) ==
    LET gave_up == IF retry + 1 < mac_max_retries THEN "retry" ELSE "unknown"
    IN IF m[1] # "parsed" THEN gave_up
       ELSE IF MacUpToDate(local_info, m[2].version, m[2].build_number)
       THEN "skip"
       ELSE IF m[3] = "none" THEN gave_up
       ELSE IF m[4] = "never" THEN "downloading"
       ELSE "recorded"

MacFileFrom(local_info, retry, m, now) ==
    IF MacOutcomeFrom(local_info, retry, m) = "recorded"
    THEN <<MacResult(m[2], IF m[3] = "zip" THEN MacZipUrl ELSE MacDirUrl,
                     m[4] = "ok", now)>>
    ELSE local_info

\* C15: whatever the Windows crawl does, the macOS crawl runs next; the
\* Windows crawl touches nothing the macOS crawl reads, and the macOS
\* outcome and version file follow from the macOS page and macos.yaml alone.
C15_MacRunsWhateverWindowsDid ==
    [][/\ crawl_pc = "windows" =>
             /\ crawl_pc' = "macos"
             /\ version_file'.macos = version_file.macos
             /\ version_history'.macos = version_history.macos
             /\ mac_retry' = mac_retry
       /\ crawl_pc = "macos" =>
             \E m \in MacFindings, now \in Ticks :
                 /\ last_crawl'.platform = "macOS"
                 /\ last_crawl'.outcome =
                        MacOutcomeFrom(version_file.macos, mac_retry, m)
                 /\ version_file'.macos =
                        MacFileFrom(version_file.macos, mac_retry, m, now)
                 /\ version_file'.windows = version_file.windows]_vars

\* In one run the write of windows.yaml raised after the ledger was updated,
\* and the macOS crawl still ran and recorded its version.
C15_Witness ==
    /\ runs = 1
    /\ crawl_pc = "done"
    /\ version_history.windows # <<>>
    /\ version_file.windows = <<>>
    /\ last_crawl.platform = "macOS"
    /\ last_crawl.outcome = "recorded"
    /\ version_file.macos # <<>>

\* ------------------------------------------- probe and single-stream claims
\* C16: when the probe returns a status other than 200, download_file returns
\* failure at once: no chunk fetch is submitted, no _download_single call is
\* made, and the destination path is neither created, modified nor deleted.
C16_RejectedProbeTouchesNothing ==
    [][\A resp \in SingleResponses :
          DownloadFileStart("bad", resp) =>
              /\ dl_pc' = "returned"
              /\ dl_result' = FALSE
              /\ tasks' = <<>>
              /\ chunks' = <<>>
              /\ single' = NoSingle
              /\ faults' = faults
              /\ path_exists' = path_exists
              /\ file_bytes' = file_bytes]_vars

\* download_file returned failure and the file that was at the destination
\* before the call is still there, untouched.
C16_Witness ==
    /\ dl_pc = "returned"
    /\ ~dl_result
    /\ path_exists
    /\ file_bytes = StaleFile
    /\ tasks = <<>>
    /\ single = NoSingle

\* C17: when the probe succeeds without a content length (or with 0),
\* download_file pre-allocates nothing and submits no chunk fetch; it makes
\* exactly one _download_single call and returns that call's result.
C17_NoLengthIsOneSingleStream ==
    [][/\ \A resp \in SingleResponses :
             DownloadFileStart("nolen", resp) => single'.calls = 1
       /\ single'.calls <= 1
       /\ single'.calls = 1 =>
             /\ total_size' = 0
             /\ chunks' = <<>>
             /\ tasks' = <<>>
             /\ \A k \in 1..Len(file_bytes') : file_bytes'[k] # 0
             /\ dl_pc' = "returned" <=> single'.state = "returned"
             /\ dl_pc' = "returned" => dl_result' = single'.result]_vars

\* A single-stream download that ran to its end and whose result True is the
\* result of download_file.
C17_Witness ==
    /\ dl_pc = "returned"
    /\ single.calls = 1
    /\ single.result
    /\ dl_result
    /\ remote_size > 1
    /\ file_bytes = Resource(remote_size)

\* C18: whenever _download_single returns failure, the destination path does
\* not exist when it returns.
C18_SingleFailureCleansUp ==
    (single.state = "returned" /\ ~single.result) => ~path_exists

\* The stream broke after part of the body was written, and the partly
\* written file was removed.
C18_Witness ==
    /\ single.state = "returned"
    /\ ~single.result
    /\ Len(single.body) > 0
    /\ Len(single.body) < remote_size
    /\ ~path_exists

\* ---------------------------------------------------------- pool claim
\* C19: at most num_threads chunk fetches are in flight in any state of a
\* chunked download, also with more ranges than threads; a fetch beyond the
\* first num_threads has started only after enough earlier ones finished.
C19_InFlightBounded ==
    /\ Cardinality(InFlight) <= num_threads
    /\ \A i \in TaskIds :
           tasks[i].state # "queued" =>
               Cardinality({j \in 1..(i - 1) : tasks[j].state = "done"})
                   >= i - num_threads

\* More ranges than threads: the pool is full and a fetch is waiting.
C19_Witness ==
    /\ dl_pc = "pool"
    /\ Len(tasks) > num_threads
    /\ Cardinality(InFlight) = num_threads
    /\ \E i \in TaskIds : tasks[i].state = "queued"

\* ------------------------------------------------------ persistence claim
\* C20: after every _update_history call the ledger file holds the in-memory
\* ledger: no mutation remains only in memory.
C20_FileEqualsMemory ==
    upserts > 0 =>
        /\ history_file.state = "ok"
        /\ history_file.data = version_history

\* ------------------------------------------------------ robustness claims
\* C21: loading the ledger never raises: when version_history.json is
\* absent, unreadable or unparsable the run starts with the empty ledger and
\* goes on to the first crawl.
C21_LoadNeverRaises ==
    [][(crawl_pc = "idle" \/ crawl_pc = "done") =>
          /\ crawl_pc' = "windows"
          /\ history_file.state # "ok" => version_history' = EmptyHistory
          /\ history_file.state = "ok" => version_history' = history_file.data
          /\ UNCHANGED history_file]_vars

\* A run started on an unparsable file that holds part of a ledger: the
\* ledger in memory is empty and the Windows crawl has run.
C21_Witness ==
    /\ runs = 1
    /\ crawl_pc = "macos"
    /\ history_file.state = "corrupt"
    /\ history_file.data # EmptyHistory
    /\ version_history = EmptyHistory

\* last_crawl.returned is <<>> while the crawler has not returned.  The
\* outcomes with which a platform crawler has returned to its caller.
Returned == {"unknown", "skip", "recorded", "raised"}

\* C22: neither platform crawler raises to its caller: each returns a record,
\* and when discovery failed on every strategy or attempt the record's
\* version is "Unknown" and it carries an error field.
C22_FailureIsUnknownRecord ==
    /\ last_crawl.outcome \in Returned =>
           "version" \in DOMAIN last_crawl.returned
    /\ last_crawl.outcome = "unknown" =>
           /\ last_crawl.returned.version = "Unknown"
           /\ "error" \in DOMAIN last_crawl.returned
    /\ mac_retry = mac_max_retries =>
           /\ last_crawl.platform = "macOS"
           /\ last_crawl.outcome = "unknown"

\* The third pass of the macOS crawl ended in an exception, after a Windows
\* crawl of the same run that found no version either.
C22_Witness ==
    /\ runs = 1
    /\ crawl_pc = "done"
    /\ mac_retry = mac_max_retries
    /\ version_history = EmptyHistory
    /\ last_crawl.returned.version = "Unknown"
    /\ last_crawl.returned.error = "exception"

\* ------------------------------------------------------- chunking scenario
\* The scenario total_size = 10,000,000, chunk_size = 6,000,000,
\* num_threads = 16, min_chunk_size = 1,000,000 in units of 500,000 bytes:
\* 20, 12, 16 and min_chunk_size = 2.
InScenario ==
    /\ ChunkedPath
    /\ total_size = 20
    /\ chunk_size = 12
    /\ num_threads = 16

\* C23 as stated: the scenario yields exactly the 2 ranges [0, 5999999] and
\* [6000000, 9999999].
C23_TwoRanges ==
    InScenario => chunks = <<<<0, 11>>, <<12, 19>>>>

\* C23 amended: the scenario yields 10 ranges of 1,000,000 bytes,
\* [0, 999999], [1000000, 1999999], .., [9000000, 9999999], because
\* total_size // num_threads = 625,000 is below min_chunk_size; with the
\* source's min_chunk_size of 1024 * 1024 it yields 10 ranges as well, the
\* last one [9437184, 9999999].
C23_TenRanges ==
    /\ InScenario => chunks = [k \in 1..10 |-> <<2 * (k - 1), 2 * k - 1>>]
    /\ ComputeChunks(10000000, 6000000, 16, 1000000)
          = [k \in 1..10 |-> <<1000000 * (k - 1), 1000000 * k - 1>>]
    /\ ComputeChunks(10000000, 6000000, 16, 1024 * 1024)
          = [k \in 1..10 |-> <<1048576 * (k - 1),
                               Min(1048576 * k - 1, 9999999)>>]

C23_Witness ==
    /\ InScenario
    /\ dl_pc = "pool"
    /\ Len(chunks) = 10
    /\ Len(tasks) = 10

\* ------------------------------------------------------------- round trip
\* C24: for the same resource a successful chunked download and a successful
\* single-stream download leave files of identical length and bytes: on
\* either path a successful download_file leaves the same file, the one a
\* complete single stream writes.
C24_RoundTrip ==
    (dl_pc = "returned" /\ dl_result) =>
        /\ path_exists
        /\ Len(file_bytes) = remote_size
        /\ \A o \in 0..(remote_size - 1) : file_bytes[o + 1] = o + 1

\* ---------------------------------------------------- exact-length claim
\* C25: a chunk fetch for [start, end] that returns success has written
\* exactly end - start + 1 bytes from offset start (its last write lands at
\* offset end) and the file's length is still total_size.
C25_SuccessWroteExactRange ==
    [][\A i \in TaskIds :
          (tasks[i].state # "done" /\ tasks'[i].state = "done"
               /\ tasks'[i].result) =>
              /\ tasks[i].state = "writing"
              /\ Len(tasks[i].body) = 1
              /\ tasks[i].pos = chunks[i][2]
              /\ Len(file_bytes') = total_size]_vars

\* ------------------------------------------------- failed-download claims
\* macos.yaml is the record of a crawl whose download failed: it names no
\* local_file.  (Only the macOS crawler reaches download_file: the two calls
\* of the Windows crawler name url_64 and url_32, which are not defined.)
DownloadFailedBefore ==
    /\ LocalInfo("macOS") # <<>>
    /\ "local_file" \notin DOMAIN LocalInfo("macOS")[1]

\* C26: when the download of a discovered version failed in one run, a later
\* crawl that discovers the same version does not Skip.
C26_FailedDownloadIsRetried ==
    [][(/\ DiscoveryStep("macOS")
        /\ DownloadFailedBefore
        /\ CurrentRecordMatches("macOS", LocalInfo("macOS"),
               last_crawl'.version, last_crawl'.build_number))
       => last_crawl'.outcome # "skip"]_vars

\* C27: in every ledger record local_file and file_hash are both present or
\* both absent, and when present they are the file and hash of a download
\* made for the record's own version, build_number and download_url.
C27_FileFieldsMatchRecord ==
    \A key \in DOMAIN version_history :
        \A i \in 1..Len(version_history[key]) :
            LET r == version_history[key][i]
            IN /\ "local_file" \in DOMAIN r <=> "file_hash" \in DOMAIN r
               /\ "local_file" \in DOMAIN r =>
                      /\ r.local_file[2] = r.version
                      /\ r.local_file[3] = Get(r, "build_number")
                      /\ r.file_hash = FileHash(r.download_url)

\* ------------------------------------------------- discovery loop claim
\* The crawler is one sequential process: a pass of the macOS loop that can
\* be taken is taken.
SpecCrawlFair ==
    /\ InitCrawl
    /\ [][NextCrawl]_vars
    /\ WF_vars(\E m \in MacFindings, now \in Ticks :
                  MacAttempt(m[1], m[2], m[3], m[4], m[5], now))

\* C28: the macOS discovery loop ends after at most 3 passes: a pass starts
\* only while retry_count is below 3, every pass either returns a record
\* or adds one to retry_count, and a crawl that was started returns.
C28_LoopEndsWithinThreePasses ==
    /\ [][(crawl_pc = "macos") =>
             /\ mac_retry < mac_max_retries
             /\ \/ crawl_pc' = "done" /\ "version" \in DOMAIN last_crawl'.returned
                \/ crawl_pc' = "macos" /\ mac_retry' = mac_retry + 1]_vars
    /\ (crawl_pc = "macos") ~> (crawl_pc = "done")

====
